---- MODULE Spec2Model ----
(***************************************************************************)
(* BookManager of src/script.js: a list of book records kept as one JSON   *)
(* text under one localStorage key, with add / delete / search / stats /   *)
(* export / import / clear, and the DOMContentLoaded seeding of samples.   *)
(*                                                                         *)
(* JavaScript strings are sequences of one-character strings, so that      *)
(* trim, toLowerCase and includes are computed and not assumed.            *)
(***************************************************************************)
EXTENDS Integers, Sequences, FiniteSets, TLC

VARIABLES
    storage,    \* localStorage[STORAGE_KEY]: NullItem, or the JSON text stored
    pending,    \* FileReaders in flight: file name -> number of reads under way
    download,   \* the backup file the last exportData offered, or NoFile
    last        \* what the last call did: its name, argument, result, setItem calls

vars == <<storage, pending, download, last>>

(***************************************************************************)
(* Bounds of the model.                                                    *)
(***************************************************************************)
\* add and import are not taken beyond this collection length
MaxBooks == 2
\* importData calls whose file read is under way at the same time
MaxPending == 1
\* the same, where imports that overlap are followed (SpecOverlap)
MaxOverlap == 2

(***************************************************************************)
(* JavaScript values held in a field of a record.                          *)
(***************************************************************************)
\* the key is not there (reading it gives undefined)
Absent == [t |-> "absent", s |-> <<>>]
Undefined == [t |-> "undefined", s |-> <<>>]
Str(s) == [t |-> "string", s |-> s]
\* a JSON object or array used as a value: every parse makes a new object
ObjVal == [t |-> "object", s |-> <<>>]

\* an element of the list: t is "object" (a record), "number" or "null"
Obj(id, title, author, uploader, contact, createdAt, note) ==
    [t |-> "object", id |-> id, title |-> title, author |-> author,
     uploader |-> uploader, contact |-> contact, createdAt |-> createdAt,
     note |-> note]
Prim(tag) == [t |-> tag, id |-> Absent, title |-> Absent, author |-> Absent,
              uploader |-> Absent, contact |-> Absent, createdAt |-> Absent,
              note |-> Absent]

\* book.k : undefined for a key that is not there and for a number
Get(book, k) == IF book[k].t = "absent" THEN Undefined ELSE book[k]
\* book.k raises a TypeError when book is null
PropThrows(book) == book.t = "null"
AnyNull(books) == \E i \in 1..Len(books) : PropThrows(books[i])

\* !v is false
Truthy(v) == v.t = "object" \/ (v.t = "string" /\ v.s # <<>>)
\* a === b, and the SameValueZero of Set.has: an object is only equal to itself,
\* and no two values met here are the same object
StrictEq(a, b) == a.t # "object" /\ a = b

(***************************************************************************)
(* String methods.                                                         *)
(***************************************************************************)
lowerChar(c) == CASE c = "A" -> "a" [] c = "B" -> "b" [] c = "U" -> "u"
                  [] c = "X" -> "x" [] OTHER -> c
toLowerCase(s) == [i \in 1..Len(s) |-> lowerChar(s[i])]
includes(s, sub) ==
    \E i \in 0..(Len(s) - Len(sub)) : SubSeq(s, i + 1, i + Len(sub)) = sub
isWhiteSpace(c) == c \in {" ", "\t"}
trim(s) ==
    LET keep == {i \in 1..Len(s) : ~isWhiteSpace(s[i])}
        lo == CHOOSE i \in keep : \A j \in keep : i <= j
        hi == CHOOSE i \in keep : \A j \in keep : j <= i
    IN IF keep = {} THEN <<>> ELSE SubSeq(s, lo, hi)

(***************************************************************************)
(* JSON. A text is "garbage" (no JSON), "object" (JSON, but no array) or   *)
(* "array"; indent is the third argument of JSON.stringify.                *)
(***************************************************************************)
\* JSON.stringify leaves out a key whose value is undefined
toJSONValue(v) == IF v.t = "undefined" THEN Absent ELSE v
toJSON(book) ==
    [t |-> book.t, id |-> toJSONValue(book.id), title |-> toJSONValue(book.title),
     author |-> toJSONValue(book.author), uploader |-> toJSONValue(book.uploader),
     contact |-> toJSONValue(book.contact),
     createdAt |-> toJSONValue(book.createdAt), note |-> toJSONValue(book.note)]
RECURSIVE mapToJSON(_)
mapToJSON(books) ==
    IF books = <<>> THEN <<>>
    ELSE <<toJSON(Head(books))>> \o mapToJSON(Tail(books))
JSONstringify(books, indent) ==
    [kind |-> "array", indent |-> indent, val |-> mapToJSON(books)]
\* JSON.parse raises a SyntaxError
parseThrows(text) == text.kind = "garbage"
JSONparse(text) == text.val
isArray(text) == text.kind = "array"

\* localStorage.getItem gives null for a key that was never set or was removed
NullItem == [kind |-> "null", indent |-> 0, val |-> <<>>]
NoFile == [kind |-> "nofile", indent |-> 0, val |-> <<>>]


(***************************************************************************)
(* The clock and the random source.                                        *)
(***************************************************************************)
\* Date.now(), as the digits it is concatenated as
DateNow == <<"1", "7">>
\* new Date().toISOString()
ISOString == <<"T">>
\* Math.random().toString(36).substr(2, 9): any suffix may come again
RandomSuffixes == {<<"k">>, <<"z">>}

(***************************************************************************)
(* Results of a call.                                                      *)
(***************************************************************************)
RetBool(b) == [kind |-> "boolean", b |-> b]
RetList(l) == [kind |-> "array", list |-> l]
RetStats(n, m) == [kind |-> "stats", totalBooks |-> n, totalUploaders |-> m]
RetNone == [kind |-> "undefined"]
\* the promise importData returns, before the file is read
RetPromise == [kind |-> "promise"]
Resolved(n, m) == [kind |-> "resolve", success |-> TRUE, imported |-> n, total |-> m]
Rejected(e) == [kind |-> "reject", error |-> e]
\* an exception that leaves the call
Thrown == [kind |-> "throw"]

\* what a call leaves: the stored text, its result, the setItem calls it made
Out(st, ret, n) == [storage |-> st, ret |-> ret, setItems |-> n]

(***************************************************************************)
(* BookManager.                                                            *)
(***************************************************************************)
\* localStorage.getItem and removeItem raise nothing here: the failure followed
\* is the one a write can meet, setItem raising QuotaExceededError. The catch
\* of getAllBooks is reached by a stored text that does not parse.
getAllBooks(st) ==
    IF st.kind = "null" THEN <<>>
    ELSE IF parseThrows(st) THEN <<>>
    ELSE JSONparse(st)

\* localStorage.setItem: quota = it raises QuotaExceededError and stores nothing
setItem(st, text, quota) == IF quota THEN st ELSE text

saveAllBooksSwallow(st, books, quota) ==
    Out(setItem(st, JSONstringify(books, 0), quota), TRUE, 1)
saveAllBooks(st, books, quota) ==
    Out(setItem(st, JSONstringify(books, 0), quota), IF quota THEN FALSE ELSE TRUE, 1)

isCompleteNoContact(book) ==
    /\ ~PropThrows(book)
    /\ Truthy(Get(book, "title"))
    /\ Truthy(Get(book, "author"))
    /\ Truthy(Get(book, "uploader"))
\* the negation of the test of line 46 (!book covers null and undefined)
isComplete(book) ==
    /\ ~PropThrows(book)
    /\ Truthy(Get(book, "title"))
    /\ Truthy(Get(book, "author"))
    /\ Truthy(Get(book, "uploader"))
    /\ Truthy(Get(book, "contact"))

unshift(books, book) == <<book>> \o books
push(books, book) == Append(books, book)

addBook(st, book, suffix, quota) ==
    IF ~isComplete(book) THEN Out(st, RetBool(FALSE), 0)
    ELSE LET books == getAllBooks(st)
             stamped == [book EXCEPT !.id = Str(DateNow \o suffix),
                                     !.createdAt = Str(ISOString)]
             saved == saveAllBooks(st, push(books, stamped), quota)
         IN Out(saved.storage, RetBool(saved.ret), saved.setItems)

deleteBook(st, id, quota) ==
    LET books == getAllBooks(st)
        keep(book) == ~StrictEq(Get(book, "id"), id)
        filteredBooks == SelectSeq(books, keep)
    IN IF AnyNull(books) THEN Out(st, Thrown, 0)
       ELSE IF Len(filteredBooks) = Len(books) THEN Out(st, RetBool(FALSE), 0)
       ELSE LET saved == saveAllBooks(st, filteredBooks, quota)
            IN Out(saved.storage, RetBool(saved.ret), saved.setItems)

\* v.toLowerCase() raises a TypeError unless v is a string
lowerThrows(v) == v.t # "string"
\* the arrow function of lines 93-97 on one book: "throw", "true" or "false"
matchBook(book, lowerKeyword) ==
    IF PropThrows(book) \/ lowerThrows(Get(book, "title")) THEN "throw"
    ELSE IF includes(toLowerCase(Get(book, "title").s), lowerKeyword) THEN "true"
    ELSE IF lowerThrows(Get(book, "author")) THEN "throw"
    ELSE IF includes(toLowerCase(Get(book, "author").s), lowerKeyword) THEN "true"
    ELSE IF lowerThrows(Get(book, "uploader")) THEN "throw"
    ELSE IF includes(toLowerCase(Get(book, "uploader").s), lowerKeyword) THEN "true"
    ELSE "false"

searchBooks(st, keyword) ==
    IF keyword.t # "string" THEN Out(st, Thrown, 0)
    ELSE IF trim(keyword.s) = <<>> THEN Out(st, RetList(getAllBooks(st)), 0)
    ELSE LET books == getAllBooks(st)
             lowerKeyword == toLowerCase(keyword.s)
             hit(book) == matchBook(book, lowerKeyword) = "true"
         IN IF \E i \in 1..Len(books) : matchBook(books[i], lowerKeyword) = "throw"
            THEN Out(st, Thrown, 0)
            ELSE Out(st, RetList(SelectSeq(books, hit)), 0)

getStats(st) ==
    LET books == getAllBooks(st)
        \* a Set keeps one of each string and one undefined, and every object
        plain == {Get(books[i], "uploader") : i \in {j \in 1..Len(books) :
                       Get(books[j], "uploader").t # "object"}}
        objects == {i \in 1..Len(books) : Get(books[i], "uploader").t = "object"}
    IN IF AnyNull(books) THEN Out(st, Thrown, 0)
       ELSE Out(st, RetStats(Len(books), Cardinality(plain) + Cardinality(objects)), 0)

\* the text of the file exportData offers for download
exportData(st) == JSONstringify(getAllBooks(st), 2)

newBooksUnfiltered(existingBooks, importedBooks) == importedBooks
\* lines 151-153: the incoming records whose id no stored record has
newBooksOf(existingBooks, importedBooks) ==
    LET fresh(book) == ~\E j \in 1..Len(existingBooks) :
                           StrictEq(Get(existingBooks[j], "id"), Get(book, "id"))
    IN SelectSeq(importedBooks, fresh)

\* reader.onload for a file whose text is text
onload(st, text, quota) ==
    IF parseThrows(text) THEN Out(st, Rejected("SyntaxError"), 0)
    ELSE IF ~isArray(text) THEN Out(st, Rejected("not an array"), 0)
    ELSE LET importedBooks == JSONparse(text)
             existingBooks == getAllBooks(st)
             newBooks == newBooksOf(existingBooks, importedBooks)
             mergedBooks == existingBooks \o newBooks
             saved == saveAllBooks(st, mergedBooks, quota)
         IN IF AnyNull(existingBooks) \/ AnyNull(importedBooks)
            THEN Out(st, Rejected("TypeError"), 0)
            ELSE IF saved.ret
            THEN Out(saved.storage, Resolved(Len(newBooks), Len(mergedBooks)),
                     saved.setItems)
            ELSE Out(saved.storage, Rejected("save failed"), saved.setItems)

\* reader.onerror
onerror(st) == Out(st, Rejected("read failed"), 0)

clearAllData(st) == Out(NullItem, RetBool(TRUE), 0)

(***************************************************************************)
(* The sample records of the DOMContentLoaded listener (lines 195-244);    *)
(* the Chinese texts are written in Latin letters.                         *)
(***************************************************************************)
sample1Book ==
    Obj(Str(<<"s", "a", "m", "p", "l", "e", "1">>),
        Str(<<"S", "a", "n", " ", "T", "i">>),
        Str(<<"L", "i", "u", " ", "C", "i", "x", "i", "n">>),
        Str(<<"X", "i", "a", "o", " ", "Y", "a", "n", "g">>),
        Str(<<"y", "b", "y", "6", "6", "6", "@", "e", "x", "a", "m", "p", "l", "e", ".", "c", "o", "m">>),
        Str(ISOString), Absent)
sample2Book ==
    Obj(Str(<<"s", "a", "m", "p", "l", "e", "2">>),
        Str(<<"X", "i", "n", " ", "D", "a", "x", "u", "e", " ", "Y", "i", "n", "g", "y", "u", " ", "2">>),
        Str(<<"P", "a", "n", " ", "H", "a", "i", "y", "i", "n", "g">>),
        Str(<<"X", "i", "a", "o", " ", "M", "a">>),
        Str(<<"q", "q", ":", "1", "3", "1", "4", "5", "2", "0", "8", "8", "6">>),
        Str(ISOString), Absent)
sample3Book ==
    Obj(Str(<<"s", "a", "m", "p", "l", "e", "3">>),
        Str(<<"G", "o", "n", "g", "c", "h", "e", "n", "g", " ", "L", "i", "x", "u", "e">>),
        Str(<<"C", "a", "i", " ", "G", "u", "a", "n", "g", "x", "i", "n">>),
        Str(<<"X", "i", "a", "o", " ", "W", "a", "n", "g">>),
        Str(<<"1", "3", "9", "1", "3", "1", "4", "1", "1", "3", "1", "4">>),
        Str(ISOString), Absent)
sample4Book ==
    Obj(Str(<<"s", "a", "m", "p", "l", "e", "4">>),
        Str(<<"X", "i", "n", " ", "D", "a", "x", "u", "e", " ", "Y", "i", "n", "g", "y", "u", " ", "D", "u", "x", "i", "e", " ", "2">>),
        Str(<<"Z", "h", "e", "n", "g", " ", "S", "h", "u", "t", "a", "n", "g">>),
        Str(<<"X", "i", "a", "o", " ", "X", "u">>),
        Str(<<"v", "x", ":", "w", "o", "b", "u", "y", "a", "o", "g", "u", "n", "_", "6", "7", "8">>),
        Str(ISOString), Absent)
sample5Book ==
    Obj(Str(<<"s", "a", "m", "p", "l", "e", "5">>),
        Str(<<"G", "o", "n", "g", "y", "e", " ", "S", "h", "e", "j", "i", " ", "S", "h", "i">>),
        Str(<<"H", "e", " ", "R", "e", "n", "k", "e">>),
        Str(<<"X", "i", "a", "o", " ", "L", "i", "u">>),
        Str(<<"a", "i", "w", "a", "n", "p", "u", "b", "g", "9", "9", "8", "@", "e", "x", "a", "m", "p", "l", "e", ".", "c", "o", "m">>),
        Str(ISOString), Absent)
sample6Book ==
    Obj(Str(<<"s", "a", "m", "p", "l", "e", "6">>),
        Str(<<"Z", "h", "o", "n", "g", "g", "u", "o", " ", "J", "i", "n", "d", "a", "i", "s", "h", "i", " ", "2", "0", "2", "3">>),
        Str(<<"B", "i", "a", "n", "x", "i", "e", "z", "u">>),
        Str(<<"X", "i", "a", "o", " ", "Y", "a", "o">>),
        Str(<<"v", "x", ":", "n", "o", "b", "l", "e", "a", "r", "c", "h", "i", "t", "e", "c", "t", "u", "r", "e", "s", "t", "u", "d", "e", "n", "t">>),
        Str(ISOString), Absent)
sampleBooks == <<sample1Book, sample2Book, sample3Book, sample4Book, sample5Book, sample6Book>>

domContentLoaded(st, quota) ==
    LET books == getAllBooks(st)
    IN IF Len(books) = 0
       THEN LET saved == saveAllBooks(st, sampleBooks, quota)
            IN Out(saved.storage, RetNone, saved.setItems)
       ELSE Out(st, RetNone, 0)


(***************************************************************************)
(* The inputs the calls are made with.                                     *)
(***************************************************************************)
\* a form filled in completely; its note key is there with the value undefined
validBook ==
    Obj(Absent, Str(<<"A", "b">>), Str(<<"c">>), Str(<<"U">>), Str(<<"x", "@">>),
        Absent, Undefined)
AddInputs ==
    { validBook,
      Prim("null"),
      [validBook EXCEPT !.title = Absent],
      [validBook EXCEPT !.author = Str(<<>>)],
      [validBook EXCEPT !.uploader = Undefined],
      [validBook EXCEPT !.contact = Str(<<>>)] }

\* records found in files: s1Book matches the keyword "a" in its contact only
s1Book ==
    Obj(Str(<<"s", "1">>), Str(<<"c">>), Str(<<"B">>), Str(<<"U">>),
        Str(<<"a", "b">>), Str(ISOString), Absent)
\* { "id": "s1" }
s1Stub == [Prim("object") EXCEPT !.id = Str(<<"s", "1">>)]
\* a record an earlier addBook made, as a backup holds it
kBook == [toJSON(validBook) EXCEPT !.id = Str(DateNow \o <<"k">>),
                                   !.createdAt = Str(ISOString)]
\* { "id": {} }
objIdStub == [Prim("object") EXCEPT !.id = ObjVal]

arrayFile(books) == [kind |-> "array", indent |-> 2, val |-> books]
FixedFiles == {"garbage", "object", "single", "dup", "mixed", "null", "objid"}
FileNames == FixedFiles \cup {"backup"}
\* the text of a file; dl is the backup file
fileText(name, dl) ==
    CASE name = "garbage" -> [kind |-> "garbage", indent |-> 0, val |-> <<>>]
      [] name = "object" -> [kind |-> "object", indent |-> 0, val |-> <<>>]
      [] name = "single" -> arrayFile(<<s1Stub>>)
      [] name = "dup" -> arrayFile(<<s1Book, s1Stub>>)
      [] name = "mixed" -> arrayFile(<<kBook, Prim("number")>>)
      [] name = "null" -> arrayFile(<<Prim("null")>>)
      [] name = "objid" -> arrayFile(<<objIdStub>>)
      [] name = "backup" -> dl

Keywords ==
    { Str(<<>>), Str(<<" ", "\t">>), Str(<<"A">>), Str(<<"x">>) }
DeleteIds ==
    { Str(<<"s", "1">>), Str(DateNow \o <<"k">>), sample1Book.id,
      Str(<<"n", "o">>), Undefined }

(***************************************************************************)
(* The state machine.                                                      *)
(***************************************************************************)
noneInFlight == [n \in FileNames |-> 0]
RECURSIVE sumOver(_, _)
sumOver(f, S) ==
    IF S = {} THEN 0
    ELSE LET x == CHOOSE y \in S : TRUE IN f[x] + sumOver(f, S \ {x})
inFlight == sumOver(pending, FileNames)

\* the record of a call; quota: a setItem of the call raised
Call(op, arg, out, quota) ==
    [op |-> op, arg |-> arg, ret |-> out.ret, setItems |-> out.setItems,
     quota |-> quota /\ out.setItems > 0]

\* setItem can raise only in a call that reaches it, and Math.random is only
\* drawn from on line 54
QuotaOutcomes(reached) == IF reached THEN BOOLEAN ELSE {FALSE}
SuffixesDrawn(reached) ==
    IF reached THEN RandomSuffixes ELSE {CHOOSE s \in RandomSuffixes : TRUE}
writes(out) == out.setItems > 0

\* the model stops the collection from growing beyond MaxBooks
withinBounds(out) ==
    out.storage = storage \/ Len(getAllBooks(out.storage)) <= MaxBooks

Init ==
    /\ storage = NullItem
    /\ pending = noneInFlight
    /\ download = NoFile
    /\ last = Call("none", "none", Out(NullItem, RetNone, 0), FALSE)

AddBook ==
    \E book \in AddInputs :
    \E suffix \in SuffixesDrawn(isComplete(book)) :
    \E quota \in QuotaOutcomes(isComplete(book)) :
        LET out == addBook(storage, book, suffix, quota)
        IN /\ withinBounds(out)
           /\ storage' = out.storage
           /\ last' = Call("addBook", book, out, quota)
           /\ UNCHANGED <<pending, download>>

DeleteBook ==
    \E id \in DeleteIds :
    \E quota \in QuotaOutcomes(writes(deleteBook(storage, id, FALSE))) :
        LET out == deleteBook(storage, id, quota)
        IN /\ storage' = out.storage
           /\ last' = Call("deleteBook", id, out, quota)
           /\ UNCHANGED <<pending, download>>

SearchBooks ==
    \E keyword \in Keywords :
        LET out == searchBooks(storage, keyword)
        IN /\ storage' = out.storage
           /\ last' = Call("searchBooks", keyword, out, FALSE)
           /\ UNCHANGED <<pending, download>>

GetAllBooks ==
    /\ last' = Call("getAllBooks", "none", Out(storage, RetList(getAllBooks(storage)), 0),
                    FALSE)
    /\ UNCHANGED <<storage, pending, download>>

GetStats ==
    LET out == getStats(storage)
    IN /\ storage' = out.storage
       /\ last' = Call("getStats", "none", out, FALSE)
       /\ UNCHANGED <<pending, download>>

ClearAllData ==
    LET out == clearAllData(storage)
    IN /\ storage' = out.storage
       /\ last' = Call("clearAllData", "none", out, FALSE)
       /\ UNCHANGED <<pending, download>>

ExportData ==
    /\ pending["backup"] = 0
    /\ download' = exportData(storage)
    /\ last' = Call("exportData", "none", Out(storage, RetNone, 0), FALSE)
    /\ UNCHANGED <<storage, pending>>

\* importData up to reader.readAsText(file)
ImportData(names, limit) ==
    \E name \in names :
        /\ inFlight < limit
        /\ name = "backup" => download # NoFile
        /\ pending' = [pending EXCEPT ![name] = @ + 1]
        /\ last' = Call("importData", "none", Out(storage, RetPromise, 0), FALSE)
        /\ UNCHANGED <<storage, download>>

Onload ==
    \E name \in FileNames :
    \E quota \in QuotaOutcomes(writes(onload(storage, fileText(name, download), FALSE))) :
        LET text == fileText(name, download)
            out == onload(storage, text, quota)
        IN /\ pending[name] > 0
           /\ withinBounds(out)
           /\ storage' = out.storage
           /\ pending' = [pending EXCEPT ![name] = @ - 1]
           /\ last' = Call("onload", [name |-> name, text |-> text], out, quota)
           /\ UNCHANGED download

Onerror ==
    \E name \in FileNames :
        /\ pending[name] > 0
        /\ pending' = [pending EXCEPT ![name] = @ - 1]
        /\ last' = Call("onerror", "none", onerror(storage), FALSE)
        /\ UNCHANGED <<storage, download>>

\* a page load: the readers of the page before are gone, the stored text and
\* the downloaded file stay
DOMContentLoaded ==
    \E quota \in QuotaOutcomes(writes(domContentLoaded(storage, FALSE))) :
        LET out == domContentLoaded(storage, quota)
        IN /\ storage' = out.storage
           /\ pending' = noneInFlight
           /\ last' = Call("DOMContentLoaded", "none", out, quota)
           /\ UNCHANGED download

Next ==
    \/ ImportData(FixedFiles, MaxPending)
    \/ Onload
    \/ Onerror
    \/ AddBook
    \/ DeleteBook
    \/ SearchBooks
    \/ GetAllBooks
    \/ GetStats
    \/ ClearAllData
    \/ DOMContentLoaded

Spec == Init /\ [][Next]_vars

\* the same calls, with more imports under way together
NextOverlap ==
    \/ ImportData(FixedFiles, MaxOverlap)
    \/ Onload
    \/ Onerror
    \/ AddBook
    \/ DeleteBook
    \/ SearchBooks
    \/ GetAllBooks
    \/ GetStats
    \/ ClearAllData
    \/ DOMContentLoaded

SpecOverlap == Init /\ [][NextOverlap]_vars

\* the backup round trip: exportData, and importData of the file it offered
NextBackup ==
    \/ ImportData(FileNames, MaxPending)
    \/ Onload
    \/ Onerror
    \/ AddBook
    \/ DeleteBook
    \/ ClearAllData
    \/ ExportData
    \/ DOMContentLoaded

SpecBackup == Init /\ [][NextBackup]_vars


(***************************************************************************)
(* What the claims are stated with. None of it is used by the model above. *)
(***************************************************************************)
books == getAllBooks(storage)
RequiredFields == {"title", "author", "uploader", "contact"}
nonEmptyString(v) == v.t = "string" /\ Len(v.s) > 0
\* a record whose four required texts are all there and non-empty
validInput(book) ==
    book.t = "object" /\ \A k \in RequiredFields : nonEmptyString(book[k])
\* two ids are the same id: a missing id and an id that is an object are no id
sameId(a, b) == a.t = "string" /\ b.t = "string" /\ a.s = b.s
\* the id of a record, as import compares it: a missing id is the id undefined
\* and an object is an id of its own
storedAs(old, v) ==
    \E j \in 1..Len(old) :
        /\ old[j].id.t # "object"
        /\ (IF old[j].id.t = "string" THEN old[j].id
            ELSE Undefined) = (IF v.t = "string" THEN v ELSE Undefined)
        /\ v.t # "object"
RECURSIVE notStored(_, _)
notStored(old, incoming) ==
    IF Len(incoming) = 0 THEN <<>>
    ELSE IF storedAs(old, incoming[1].id) THEN notStored(old, Tail(incoming))
    ELSE <<incoming[1]>> \o notStored(old, Tail(incoming))
\* bs without its k-th element
without(bs, k) == SubSeq(bs, 1, k - 1) \o SubSeq(bs, k + 1, Len(bs))
isBlank(s) == \A i \in 1..Len(s) : s[i] \in {" ", "\t"}
lowered(s) == [i \in 1..Len(s) |->
                  IF s[i] = "A" THEN "a" ELSE IF s[i] = "B" THEN "b"
                  ELSE IF s[i] = "U" THEN "u" ELSE IF s[i] = "X" THEN "x" ELSE s[i]]
occursIn(sub, v) ==
    /\ v.t = "string"
    /\ \E i \in 1..(Len(v.s) - Len(sub) + 1) :
           \A j \in 1..Len(sub) : lowered(v.s)[i + j - 1] = sub[j]
RECURSIVE matching(_, _)
matching(bs, kw) ==
    IF Len(bs) = 0 THEN <<>>
    ELSE IF \E k \in {"title", "author", "uploader"} : occursIn(lowered(kw), bs[1][k])
    THEN <<bs[1]>> \o matching(Tail(bs), kw)
    ELSE matching(Tail(bs), kw)

\* C1: no two records of the stored collection have the same id.
C1_UniqueIds ==
    \A i, j \in 1..Len(books) : i # j => ~sameId(books[i].id, books[j].id)

\* C2: deleteBook with an id no record has returns false and writes nothing;
\* with an id some record has it returns true, the collection is one record
\* shorter and the other records keep their order. Stated for the calls whose
\* write localStorage does not refuse.
C2_DeleteById ==
    [][(last'.op = "deleteBook" /\ ~last'.quota) =>
        LET id == last'.arg
            after == getAllBooks(storage')
            has == \E i \in 1..Len(books) : storedAs(<<books[i]>>, id)
        IN IF ~has
           THEN /\ last'.ret = RetBool(FALSE)
                /\ storage' = storage
                /\ last'.setItems = 0
           ELSE /\ last'.ret = RetBool(TRUE)
                /\ Len(after) = Len(books) - 1
                /\ \E k \in 1..Len(books) :
                       storedAs(<<books[k]>>, id) /\ after = without(books, k)]_vars

\* the record addBook appends for the input book
appended(before, after, book) ==
    /\ Len(after) = Len(before) + 1
    /\ SubSeq(after, 1, Len(before)) = before
    /\ LET new == after[Len(after)]
       IN /\ \A k \in RequiredFields : new[k] = book[k]
          /\ \E suffix \in RandomSuffixes : new.id = Str(DateNow \o suffix)
          /\ nonEmptyString(new.createdAt)

\* C3 as claimed: addBook of a valid record always leaves the collection one
\* record longer, the new record last.
C3_AddAlwaysAppends ==
    [][(last'.op = "addBook" /\ validInput(last'.arg)) =>
        appended(books, getAllBooks(storage'), last'.arg)]_vars

\* C3: addBook of a valid record returns true when localStorage takes the write,
\* and the collection is then the one before followed by the new record, which
\* carries a generated id and a createdAt; when the write is refused it returns
\* false and the collection is the one before.
C3_AddAppends ==
    [][(last'.op = "addBook" /\ validInput(last'.arg)) =>
        IF last'.quota
        THEN last'.ret = RetBool(FALSE) /\ storage' = storage
        ELSE /\ last'.ret = RetBool(TRUE)
             /\ appended(books, getAllBooks(storage'), last'.arg)]_vars

\* addBook has returned true on a collection that held a record already
C3_Witness ==
    /\ last.op = "addBook"
    /\ last.ret = RetBool(TRUE)
    /\ Len(books) = 2

C5_RoundTrip ==
    [][(last'.op = "onload" /\ last'.arg.name = "backup" /\ ~last'.quota) =>
        LET C == download.val
            after == getAllBooks(storage')
        IN /\ books = <<>> =>
                 last'.ret = Resolved(Len(C), Len(C)) /\ after = C
           /\ books = C =>
                 last'.ret = Resolved(0, Len(C)) /\ after = C]_vars

\* C6: no call other than exportData ends with an exception leaving it.
C6_NoUncaught == last.op # "exportData" => last.ret.kind # "throw"

invalidInput(book) ==
    \/ book.t = "null"
    \/ \E k \in RequiredFields : ~nonEmptyString(book[k])

\* C7: addBook with no record, or with one of title, author, uploader and
\* contact empty or missing, returns false and writes nothing.
C7_AddRejects ==
    [][(last'.op = "addBook" /\ invalidInput(last'.arg)) =>
        /\ last'.ret = RetBool(FALSE)
        /\ storage' = storage
        /\ last'.setItems = 0]_vars

\* addBook has refused a record whose only fault is an empty contact, on a
\* collection that is not empty
C7_Witness ==
    /\ last.op = "addBook"
    /\ last.arg.t = "object"
    /\ \A k \in RequiredFields \ {"contact"} : nonEmptyString(last.arg[k])
    /\ last.arg.contact = Str(<<>>)
    /\ last.ret = RetBool(FALSE)
    /\ Len(books) > 0

\* C8: searchBooks with a blank keyword returns the whole collection; with
\* another keyword it returns, in order, the records whose lowercased title,
\* author or uploader contains the lowercased keyword; it never writes.
C8_Search ==
    [][last'.op = "searchBooks" =>
        /\ storage' = storage
        /\ last'.ret = RetList(IF isBlank(last'.arg.s) THEN books
                               ELSE matching(books, last'.arg.s))]_vars

\* C9: a call whose write localStorage refuses returns false (addBook,
\* deleteBook) or rejects (import), leaves the stored text as it was and has
\* called setItem once; an import that rejects leaves the stored text as it was.
C9_FailedWrite ==
    [][/\ (last'.quota /\ last'.op \in {"addBook", "deleteBook", "onload"}) =>
            /\ storage' = storage
            /\ last'.setItems = 1
            /\ last'.ret = (IF last'.op = "onload" THEN Rejected("save failed")
                            ELSE RetBool(FALSE))
       /\ (last'.op \in {"onload", "onerror"} /\ last'.ret.kind # "resolve") =>
            /\ last'.ret.kind = "reject"
            /\ storage' = storage]_vars

\* the write of an import was refused while the collection held records
C9_Witness ==
    /\ last.op = "onload"
    /\ last.quota
    /\ last.ret.kind = "reject"
    /\ Len(books) > 0

\* C10: an import that completes merges with the collection of that moment:
\* what is stored then stays, in order, and what is appended comes from the
\* file; and of two imports of one file under way together, the one that
\* completes appends no id twice and no id that is stored.
C10_NoLostUpdate ==
    [][(last'.op = "onload" /\ last'.ret.kind = "resolve") =>
        LET after == getAllBooks(storage')
            new == SubSeq(after, Len(books) + 1, Len(after))
        IN /\ Len(after) >= Len(books)
           /\ SubSeq(after, 1, Len(books)) = books
           /\ \A i \in 1..Len(new) :
                  \E j \in 1..Len(last'.arg.text.val) :
                      new[i] = last'.arg.text.val[j]
           /\ (\E name \in FileNames : pending[name] >= 2 /\ pending'[name] < pending[name])
                 => /\ \A i, j \in 1..Len(new) : i # j => ~sameId(new[i].id, new[j].id)
                    /\ \A i \in 1..Len(new), j \in 1..Len(books) :
                           ~sameId(new[i].id, books[j].id)]_vars

====
